---- MODULE Spec2Model ----
(***************************************************************************)
(* AWS idle resource cleaner: the Finders, the Cleaners and the two        *)
(* orchestrators (aws_cleaner.py main, lambda_function.py lambda_handler). *)
(*                                                                         *)
(* Python values are modelled by what the code does with them:             *)
(*   - a dict key that may be missing is an option: <<>> when the key is   *)
(*     absent, <<v>> when it is present with value v;                      *)
(*   - a str is [t |-> "str", v |-> its characters], a list is             *)
(*     [t |-> "list", v |-> its elements], an int is [t |-> "int", ...];   *)
(*   - a datetime is [wall |-> clock reading in ticks, tz |-> zone], a     *)
(*     naive datetime has tz = "none".                                     *)
(* The provider (EC2) is the environment: whether a call raises is chosen  *)
(* nondeterministically, within a budget of MaxFaults raising calls.       *)
(***************************************************************************)
EXTENDS Integers, Sequences, FiniteSets, TLC

VARIABLES
    flavor,        \* which entry point runs: "finder", "cli", "lambda"
    pc,            \* position of the running entry point
    inv,           \* provider inventory per region
    now,           \* reading of datetime.now() (naive local clock), in ticks
    input,         \* arguments of the entry point (CLI options / event / call)
    ri,            \* index of the region being processed
    calls,         \* mutating provider calls issued so far, in order
    finds,         \* Finder invocations so far, in order
    prompts,       \* click.confirm prompts issued so far, with the answers
    logged,        \* logger.error messages so far
    regions,       \* the regions the orchestrator iterates over
    total_cleaned, \* main: total_cleaned
    results,       \* cleanup_resources: results of the region being processed
    all_results,   \* lambda_handler: all_results
    output,        \* value returned by the entry point
    last           \* the latest Cleaner call: its candidates and its outcome

vars == <<flavor, pc, inv, now, input, ri, calls, finds, prompts, logged,
          regions, total_cleaned, results, all_results, output, last>>

----------------------------------------------------------------------------
(* Bounds of the model *)

\* longest provider response a Finder is applied to in isolation
MaxLen == 2
\* most resources of one kind in a region's inventory
MaxItems == 4
\* most provider calls that raise in one run
MaxFaults == 1
\* most confirmation prompts answered "no" in one run
MaxDeclines == 1
\* largest age threshold in days
MaxDays == 1

\* ticks of the clock per day: timedelta(days=d) is d * DayLen ticks
DayLen == 2

Regions == {"r1", "r2"}
Kinds == <<"eips", "snapshots", "instances">>

----------------------------------------------------------------------------
(* Python helpers *)

Absent == <<>>
Some(x) == <<x>>
\* dict.get(key, default)
Get(opt, default) == IF opt = Absent THEN default ELSE opt[1]

PyStr(chars) == [t |-> "str", v |-> chars]
PyList(items) == [t |-> "list", v |-> items]
PyInt(n) == [t |-> "int", v |-> <<n>>]

\* for x in value: the items a for loop yields; an int is not iterable
Iterable(value) == value.t \in {"str", "list"}
IterItems(value) ==
    IF value.t = "str"
    THEN [i \in 1..Len(value.v) |-> PyStr(<<value.v[i]>>)]
    ELSE value.v

LowerChar(c) ==
    CASE c = "S" -> "s"
      [] c = "U" -> "u"
      [] OTHER -> c
\* str.lower()
Lower(s) == PyStr([i \in 1..Len(s.v) |-> LowerChar(s.v[i])])

\* needle in hay, for two strs
StrContains(needle, hay) ==
    \E i \in 0..(Len(hay.v) - Len(needle.v)) :
        \A j \in 1..Len(needle.v) : hay.v[i + j] = needle.v[j]

STOPPED == PyStr(<<"s", "t", "o", "p", "p", "e", "d">>)

\* datetime.replace(tzinfo=None): same clock reading, no zone
ReplaceTzinfoNone(dt) == [dt EXCEPT !.tz = "none"]
\* datetime.isoformat(): a string carrying the clock reading and the zone
Isoformat(dt) == <<"iso", dt.wall, dt.tz>>
\* timedelta(days=d)
Timedelta(d) == d * DayLen
\* datetime.now() - timedelta(days=days)
CutoffDate(nowv, days) == [wall |-> nowv - Timedelta(days), tz |-> "none"]
\* a < b for two naive datetimes
DtLess(a, b) == a.wall < b.wall

RECURSIVE Concat(_)
Concat(ss) == IF ss = <<>> THEN <<>> ELSE Head(ss) \o Concat(Tail(ss))

RECURSIVE SumSeq(_)
SumSeq(ns) == IF ns = <<>> THEN 0 ELSE Head(ns) + SumSeq(Tail(ns))

----------------------------------------------------------------------------
(* The provider's describe calls.  A response is [ok, body]: ok = FALSE    *)
(* stands for the call raising.                                            *)

Raised == [ok |-> FALSE, body |-> <<>>]

\* ec2_client.describe_addresses()
describe_addresses(region_inv) ==
    [ok |-> TRUE, body |-> [Addresses |-> region_inv.Addresses]]

\* ec2_client.describe_snapshots(OwnerIds=['self'])
describe_snapshots(region_inv) ==
    [ok |-> TRUE, body |-> [Snapshots |-> region_inv.Snapshots]]

\* the server-side filter instance-state-name: reservations keep the
\* instances in one of the states asked for, empty reservations are dropped
FilterReservations(reservations, states) ==
    LET kept == [i \in 1..Len(reservations) |->
                    SelectSeq(reservations[i],
                              LAMBDA inst : inst.State.Name \in states)]
    IN SelectSeq(kept, LAMBDA r : r # <<>>)

\* ec2_client.describe_instances(Filters=[{'Name': 'instance-state-name',
\*                                         'Values': ['stopped']}])
describe_instances(region_inv) ==
    [ok |-> TRUE,
     body |-> [Reservations |->
                 [i \in 1..Len(FilterReservations(region_inv.Reservations, {"stopped"})) |->
                    [Instances |->
                       FilterReservations(region_inv.Reservations, {"stopped"})[i]]]]]

----------------------------------------------------------------------------
(* Finders of the interactive flavor: AWSResourceCleaner *)

\* mutant: the network-interface attachment is not looked at
Cli_eip_is_unused_instance_only(eip) ==
    eip.InstanceId = Absent

\* 'InstanceId' not in eip and 'NetworkInterfaceId' not in eip
Cli_eip_is_unused(eip) ==
    eip.InstanceId = Absent /\ eip.NetworkInterfaceId = Absent

Cli_eip_record(eip) ==
    [AllocationId |-> eip.AllocationId,
     PublicIp |-> eip.PublicIp,
     Domain |-> Get(eip.Domain, "classic")]

RECURSIVE Cli_unused_eips(_)
Cli_unused_eips(addresses) ==
    IF addresses = <<>> THEN <<>>
    ELSE (IF Cli_eip_is_unused(Head(addresses))
          THEN <<Cli_eip_record(Head(addresses))>> ELSE <<>>)
         \o Cli_unused_eips(Tail(addresses))

\* AWSResourceCleaner.find_unused_elastic_ips: [] when the query raised
Cli_find_unused_elastic_ips(resp) ==
    IF resp.ok THEN Cli_unused_eips(resp.body.Addresses) ELSE <<>>

\* start_time < cutoff_date
Cli_snapshot_is_old(snapshot, cutoff_date) ==
    DtLess(ReplaceTzinfoNone(snapshot.StartTime), cutoff_date)

Cli_snapshot_record(snapshot) ==
    [SnapshotId |-> snapshot.SnapshotId,
     Description |-> Get(snapshot.Description, "No description"),
     StartTime |-> snapshot.StartTime,
     VolumeSize |-> snapshot.VolumeSize]

RECURSIVE Cli_old_snapshots(_, _)
Cli_old_snapshots(snapshots, cutoff_date) ==
    IF snapshots = <<>> THEN <<>>
    ELSE (IF Cli_snapshot_is_old(Head(snapshots), cutoff_date)
          THEN <<Cli_snapshot_record(Head(snapshots))>> ELSE <<>>)
         \o Cli_old_snapshots(Tail(snapshots), cutoff_date)

\* AWSResourceCleaner.find_old_snapshots
Cli_find_old_snapshots(resp, nowv, days) ==
    IF resp.ok
    THEN Cli_old_snapshots(resp.body.Snapshots, CutoffDate(nowv, days))
    ELSE <<>>

RECURSIVE Cli_get_instance_name(_)
\* AWSResourceCleaner._get_instance_name, over instance.get('Tags', [])
Cli_get_instance_name(tags) ==
    IF tags = <<>> THEN "No Name"
    ELSE IF Head(tags).Key = "Name" THEN Head(tags).Value
         ELSE Cli_get_instance_name(Tail(tags))

Cli_instance_record(instance) ==
    [InstanceId |-> instance.InstanceId,
     InstanceType |-> instance.InstanceType,
     LaunchTime |-> instance.LaunchTime,
     State |-> instance.State.Name,
     Name |-> Cli_get_instance_name(Get(instance.Tags, <<>>))]

\* 'stopped' in transition.lower()
Cli_transition_is_stopped(transition) ==
    StrContains(STOPPED, Lower(transition))

\* launch_time < cutoff_date
Cli_instance_is_old(instance, cutoff_date) ==
    DtLess(ReplaceTzinfoNone(instance.LaunchTime), cutoff_date)

RECURSIVE Cli_instance_entries(_, _, _)
\* the loop over instance.get('StateTransitionReason', ''): one entry is
\* appended for every item of the iteration that contains 'stopped'
Cli_instance_entries(instance, transitions, cutoff_date) ==
    IF transitions = <<>> THEN <<>>
    ELSE (IF Cli_transition_is_stopped(Head(transitions))
             /\ Cli_instance_is_old(instance, cutoff_date)
          THEN <<Cli_instance_record(instance)>> ELSE <<>>)
         \o Cli_instance_entries(instance, Tail(transitions), cutoff_date)

\* the items the loop "for transition in ..." iterates over
Cli_transitions(instance) ==
    IterItems(Get(instance.StateTransitionReason, PyStr(<<>>)))

RECURSIVE Cli_old_stopped_in(_, _)
Cli_old_stopped_in(instances, cutoff_date) ==
    IF instances = <<>> THEN <<>>
    ELSE Cli_instance_entries(Head(instances),
                              Cli_transitions(Head(instances)), cutoff_date)
         \o Cli_old_stopped_in(Tail(instances), cutoff_date)

RECURSIVE Cli_old_stopped(_, _)
Cli_old_stopped(reservations, cutoff_date) ==
    IF reservations = <<>> THEN <<>>
    ELSE Cli_old_stopped_in(Head(reservations).Instances, cutoff_date)
         \o Cli_old_stopped(Tail(reservations), cutoff_date)

\* AWSResourceCleaner.find_stopped_instances
Cli_find_stopped_instances(resp, nowv, days) ==
    IF resp.ok
    THEN Cli_old_stopped(resp.body.Reservations, CutoffDate(nowv, days))
    ELSE <<>>

----------------------------------------------------------------------------
(* Finders of the event-driven flavor: LambdaResourceCleaner *)

Lambda_eip_is_unused(eip) ==
    eip.InstanceId = Absent /\ eip.NetworkInterfaceId = Absent

Lambda_eip_record(eip) ==
    [AllocationId |-> eip.AllocationId,
     PublicIp |-> eip.PublicIp,
     Domain |-> Get(eip.Domain, "classic")]

RECURSIVE Lambda_unused_eips(_)
Lambda_unused_eips(addresses) ==
    IF addresses = <<>> THEN <<>>
    ELSE (IF Lambda_eip_is_unused(Head(addresses))
          THEN <<Lambda_eip_record(Head(addresses))>> ELSE <<>>)
         \o Lambda_unused_eips(Tail(addresses))

\* LambdaResourceCleaner.find_unused_elastic_ips
Lambda_find_unused_elastic_ips(resp) ==
    IF resp.ok THEN Lambda_unused_eips(resp.body.Addresses) ELSE <<>>

\* mutant: <= in place of <
Lambda_snapshot_is_old_or_at_cutoff(snapshot, cutoff_date) ==
    ReplaceTzinfoNone(snapshot.StartTime).wall <= cutoff_date.wall

Lambda_snapshot_is_old(snapshot, cutoff_date) ==
    DtLess(ReplaceTzinfoNone(snapshot.StartTime), cutoff_date)

Lambda_snapshot_record(snapshot) ==
    [SnapshotId |-> snapshot.SnapshotId,
     Description |-> Get(snapshot.Description, "No description"),
     StartTime |-> Isoformat(snapshot.StartTime),
     VolumeSize |-> snapshot.VolumeSize]

RECURSIVE Lambda_old_snapshots(_, _)
Lambda_old_snapshots(snapshots, cutoff_date) ==
    IF snapshots = <<>> THEN <<>>
    ELSE (IF Lambda_snapshot_is_old(Head(snapshots), cutoff_date)
          THEN <<Lambda_snapshot_record(Head(snapshots))>> ELSE <<>>)
         \o Lambda_old_snapshots(Tail(snapshots), cutoff_date)

\* LambdaResourceCleaner.find_old_snapshots
Lambda_find_old_snapshots(resp, nowv, days) ==
    IF resp.ok
    THEN Lambda_old_snapshots(resp.body.Snapshots, CutoffDate(nowv, days))
    ELSE <<>>

RECURSIVE Lambda_get_instance_name(_)
\* LambdaResourceCleaner._get_instance_name
Lambda_get_instance_name(tags) ==
    IF tags = <<>> THEN "No Name"
    ELSE IF Head(tags).Key = "Name" THEN Head(tags).Value
         ELSE Lambda_get_instance_name(Tail(tags))

Lambda_instance_record(instance) ==
    [InstanceId |-> instance.InstanceId,
     InstanceType |-> instance.InstanceType,
     LaunchTime |-> Isoformat(instance.LaunchTime),
     State |-> instance.State.Name,
     Name |-> Lambda_get_instance_name(Get(instance.Tags, <<>>))]

\* mutant: the launch time is not looked at
Lambda_instance_is_old_whatever_the_launch(instance, cutoff_date) ==
    TRUE

Lambda_instance_is_old(instance, cutoff_date) ==
    DtLess(ReplaceTzinfoNone(instance.LaunchTime), cutoff_date)

RECURSIVE Lambda_old_stopped_in(_, _)
Lambda_old_stopped_in(instances, cutoff_date) ==
    IF instances = <<>> THEN <<>>
    ELSE (IF Lambda_instance_is_old(Head(instances), cutoff_date)
          THEN <<Lambda_instance_record(Head(instances))>> ELSE <<>>)
         \o Lambda_old_stopped_in(Tail(instances), cutoff_date)

RECURSIVE Lambda_old_stopped(_, _)
Lambda_old_stopped(reservations, cutoff_date) ==
    IF reservations = <<>> THEN <<>>
    ELSE Lambda_old_stopped_in(Head(reservations).Instances, cutoff_date)
         \o Lambda_old_stopped(Tail(reservations), cutoff_date)

\* LambdaResourceCleaner.find_stopped_instances
Lambda_find_stopped_instances(resp, nowv, days) ==
    IF resp.ok
    THEN Lambda_old_stopped(resp.body.Reservations, CutoffDate(nowv, days))
    ELSE <<>>

----------------------------------------------------------------------------
(* Cleaners.  A Cleaner loops over its candidates; the iterations are      *)
(* independent, so the loop is the concatenation of what each iteration    *)
(* does.  raises[i] says whether the provider call made for candidate i    *)
(* raises; answers[i] is the answer given to click.confirm for candidate i.*)
(* One iteration yields [count, calls, logged, errors, prompts].           *)

Call(op, by, id, region, raised) ==
    [op |-> op, by |-> by, id |-> id, region |-> region, raised |-> raised]
Msg(what, item) == [what |-> what, item |-> item]
Prompt(text, item, answer) == [text |-> text, item |-> item, answer |-> answer]

Step(count, callsv, loggedv, errorsv, promptsv) ==
    [count |-> count, calls |-> callsv, logged |-> loggedv,
     errors |-> errorsv, prompts |-> promptsv]

\* a loop's outcome from its iterations' outcomes
Loop(iterations) ==
    LET steps == iterations IN
    [count |-> SumSeq([i \in 1..Len(steps) |-> steps[i].count]),
     calls |-> Concat([i \in 1..Len(steps) |-> steps[i].calls]),
     logged |-> Concat([i \in 1..Len(steps) |-> steps[i].logged]),
     errors |-> Concat([i \in 1..Len(steps) |-> steps[i].errors]),
     prompts |-> Concat([i \in 1..Len(steps) |-> steps[i].prompts])]

\* mutant: every address is released by its public address
Cli_release_call_by_public_ip(eip, region, raised) ==
    Call("release_address", "PublicIp", eip.PublicIp, region, raised)

\* release_address(AllocationId=...) for "vpc", release_address(PublicIp=...)
\* otherwise
Cli_release_call(eip, region, raised) ==
    IF eip.Domain = "vpc"
    THEN Call("release_address", "AllocationId", eip.AllocationId, region, raised)
    ELSE Call("release_address", "PublicIp", eip.PublicIp, region, raised)

\* one iteration of AWSResourceCleaner.clean_elastic_ips
Cli_clean_eip(eip, dry_run, region, raise) ==
    IF dry_run THEN Step(1, <<>>, <<>>, <<>>, <<>>)
    ELSE IF raise
         THEN Step(0, <<Cli_release_call(eip, region, TRUE)>>,
                   <<Msg("Error releasing EIP", eip.PublicIp)>>, <<>>, <<>>)
         ELSE Step(1, <<Cli_release_call(eip, region, FALSE)>>, <<>>, <<>>, <<>>)

\* AWSResourceCleaner.clean_elastic_ips
Cli_clean_elastic_ips(eips, dry_run, region, raises) ==
    Loop([i \in 1..Len(eips) |-> Cli_clean_eip(eips[i], dry_run, region, raises[i])])

\* mutant: cleaned_count is incremented before the call, so a failed delete
\* is counted
Cli_clean_snapshot_count_first(snapshot, dry_run, region, raise) ==
    IF dry_run THEN Step(1, <<>>, <<>>, <<>>, <<>>)
    ELSE Step(1, <<Call("delete_snapshot", "SnapshotId",
                        Some(snapshot.SnapshotId), region, raise)>>,
              IF raise
              THEN <<Msg("Error deleting snapshot", Some(snapshot.SnapshotId))>>
              ELSE <<>>,
              <<>>, <<>>)

\* one iteration of AWSResourceCleaner.clean_snapshots
Cli_clean_snapshot(snapshot, dry_run, region, raise) ==
    IF dry_run THEN Step(1, <<>>, <<>>, <<>>, <<>>)
    ELSE IF raise
         THEN Step(0, <<Call("delete_snapshot", "SnapshotId",
                             Some(snapshot.SnapshotId), region, TRUE)>>,
                   <<Msg("Error deleting snapshot", Some(snapshot.SnapshotId))>>,
                   <<>>, <<>>)
         ELSE Step(1, <<Call("delete_snapshot", "SnapshotId",
                             Some(snapshot.SnapshotId), region, FALSE)>>,
                   <<>>, <<>>, <<>>)

\* AWSResourceCleaner.clean_snapshots
Cli_clean_snapshots(snapshots, dry_run, region, raises) ==
    Loop([i \in 1..Len(snapshots) |->
            Cli_clean_snapshot(snapshots[i], dry_run, region, raises[i])])

\* mutant: the instance is terminated whatever the answer to click.confirm
Cli_clean_instance_whatever_the_answer(instance, dry_run, region, raise, answer) ==
    IF dry_run THEN Step(1, <<>>, <<>>, <<>>, <<>>)
    ELSE Step(IF raise THEN 0 ELSE 1,
              <<Call("terminate_instances", "InstanceIds",
                     Some(instance.InstanceId), region, raise)>>,
              IF raise
              THEN <<Msg("Error terminating instance", Some(instance.InstanceId))>>
              ELSE <<>>,
              <<>>,
              <<Prompt("terminate", Some(instance.InstanceId), answer)>>)

\* one iteration of AWSResourceCleaner.clean_stopped_instances: in live mode
\* click.confirm is asked for every instance, whatever main's force option
Cli_clean_instance(instance, dry_run, region, raise, answer) ==
    IF dry_run THEN Step(1, <<>>, <<>>, <<>>, <<>>)
    ELSE IF answer
         THEN IF raise
              THEN Step(0, <<Call("terminate_instances", "InstanceIds",
                                  Some(instance.InstanceId), region, TRUE)>>,
                        <<Msg("Error terminating instance", Some(instance.InstanceId))>>,
                        <<>>,
                        <<Prompt("terminate", Some(instance.InstanceId), TRUE)>>)
              ELSE Step(1, <<Call("terminate_instances", "InstanceIds",
                                  Some(instance.InstanceId), region, FALSE)>>,
                        <<>>, <<>>,
                        <<Prompt("terminate", Some(instance.InstanceId), TRUE)>>)
         ELSE Step(0, <<>>, <<>>, <<>>,
                   <<Prompt("terminate", Some(instance.InstanceId), FALSE)>>)

\* AWSResourceCleaner.clean_stopped_instances
Cli_clean_stopped_instances(instances, dry_run, region, raises, answers) ==
    Loop([i \in 1..Len(instances) |->
            Cli_clean_instance(instances[i], dry_run, region, raises[i], answers[i])])

Lambda_release_call(eip, region, raised) ==
    IF eip.Domain = "vpc"
    THEN Call("release_address", "AllocationId", eip.AllocationId, region, raised)
    ELSE Call("release_address", "PublicIp", eip.PublicIp, region, raised)

\* mutant: the release is issued without looking at dry_run
Lambda_clean_eip_no_dry_run_check(eip, dry_run, region, raise) ==
    IF raise
    THEN Step(0, <<Lambda_release_call(eip, region, TRUE)>>,
              <<Msg("Error releasing EIP", eip.PublicIp)>>,
              <<Msg("Error releasing EIP", eip.PublicIp)>>, <<>>)
    ELSE Step(1, <<Lambda_release_call(eip, region, FALSE)>>, <<>>, <<>>, <<>>)

\* one iteration of the EIP loop of LambdaResourceCleaner.cleanup_resources
Lambda_clean_eip(eip, dry_run, region, raise) ==
    IF ~dry_run /\ raise
    THEN Step(0, <<Lambda_release_call(eip, region, TRUE)>>,
              <<Msg("Error releasing EIP", eip.PublicIp)>>,
              <<Msg("Error releasing EIP", eip.PublicIp)>>, <<>>)
    ELSE Step(1, IF dry_run THEN <<>> ELSE <<Lambda_release_call(eip, region, FALSE)>>,
              <<>>, <<>>, <<>>)

\* one iteration of the snapshot loop of cleanup_resources
Lambda_clean_snapshot(snapshot, dry_run, region, raise) ==
    IF ~dry_run /\ raise
    THEN Step(0, <<Call("delete_snapshot", "SnapshotId",
                        Some(snapshot.SnapshotId), region, TRUE)>>,
              <<Msg("Error deleting snapshot", Some(snapshot.SnapshotId))>>,
              <<Msg("Error deleting snapshot", Some(snapshot.SnapshotId))>>, <<>>)
    ELSE Step(1, IF dry_run THEN <<>>
                 ELSE <<Call("delete_snapshot", "SnapshotId",
                             Some(snapshot.SnapshotId), region, FALSE)>>,
              <<>>, <<>>, <<>>)

\* one iteration of the instance loop of cleanup_resources
Lambda_clean_instance(instance, dry_run, region, raise) ==
    IF ~dry_run /\ raise
    THEN Step(0, <<Call("terminate_instances", "InstanceIds",
                        Some(instance.InstanceId), region, TRUE)>>,
              <<Msg("Error terminating instance", Some(instance.InstanceId))>>,
              <<Msg("Error terminating instance", Some(instance.InstanceId))>>, <<>>)
    ELSE Step(1, IF dry_run THEN <<>>
                 ELSE <<Call("terminate_instances", "InstanceIds",
                             Some(instance.InstanceId), region, FALSE)>>,
              <<>>, <<>>, <<>>)

\* the three loops of cleanup_resources
Lambda_clean_eips(eips, dry_run, region, raises) ==
    Loop([i \in 1..Len(eips) |-> Lambda_clean_eip(eips[i], dry_run, region, raises[i])])
Lambda_clean_snapshots(snapshots, dry_run, region, raises) ==
    Loop([i \in 1..Len(snapshots) |->
            Lambda_clean_snapshot(snapshots[i], dry_run, region, raises[i])])
Lambda_clean_instances(instances, dry_run, region, raises) ==
    Loop([i \in 1..Len(instances) |->
            Lambda_clean_instance(instances[i], dry_run, region, raises[i])])

----------------------------------------------------------------------------
(* Provider data *)

Utc(wall) == [wall |-> wall, tz |-> "UTC"]

AddressRec(i, alloc, domain, instance_id, eni) ==
    [AllocationId |-> alloc, PublicIp |-> Some(<<"ip", i>>), Domain |-> domain,
     InstanceId |-> instance_id, NetworkInterfaceId |-> eni]

SnapshotRec(i, wall) ==
    [SnapshotId |-> <<"snap", i>>, Description |-> Absent,
     StartTime |-> Utc(wall), VolumeSize |-> i]

InstanceRec(i, state, wall, reason) ==
    [InstanceId |-> <<"i", i>>, InstanceType |-> "t2.micro",
     LaunchTime |-> Utc(wall), State |-> [Name |-> state],
     StateTransitionReason |-> reason,
     Tags |-> IF i = 1 THEN Some(<<[Key |-> "Name", Value |-> "web"]>>) ELSE Absent]

\* StateTransitionReason as the EC2 API returns it: a str
ReasonStr == PyStr(<<"U", "s", "e", "r", " ", "s", "t", "o", "p", "p", "e", "d">>)
\* a value whose iteration yields whole strings, one of them 'Stopped'
ReasonList == PyList(<<PyStr(<<"U", "s", "e", "r">>),
                       PyStr(<<"S", "t", "o", "p", "p", "e", "d">>)>>)

RECURSIVE SeqsFrom(_, _)
\* sequences of length n whose i-th element is drawn from pool[i]
SeqsFrom(pool, n) ==
    IF n = 0 THEN {<<>>}
    ELSE {Append(s, x) : s \in SeqsFrom(pool, n - 1), x \in pool[n]}

----------------------------------------------------------------------------
(* A Finder applied in isolation to one provider response                  *)
(* (flavor = "finder"): input = [kind, resp, days].                        *)

FinderNow == Timedelta(MaxDays) + 1

AddressPool(i) ==
    {AddressRec(i, alloc, domain, instance_id, eni) :
        alloc \in {Absent, Some(<<"eipalloc", i>>)},
        domain \in {Absent, Some("vpc"), Some("classic")},
        instance_id \in {Absent, Some(<<"i", i>>)},
        eni \in {Absent, Some(<<"eni", i>>)}}

\* clock readings just before, at and just after the cutoff
WallsAround(days) ==
    {FinderNow - Timedelta(days) + d : d \in {-1, 0, 1}}

SnapshotPool(i, days) == {SnapshotRec(i, w) : w \in WallsAround(days)}

InstancePool(i, days) ==
    {InstanceRec(i, state, w, reason) :
        state \in {"stopped", "running"},
        w \in WallsAround(days),
        reason \in {Some(ReasonStr), Some(ReasonList)}}

\* a list of instances as reservations: one reservation each, or one for all
Reservations(instances, together) ==
    IF together /\ instances # <<>> THEN <<instances>>
    ELSE [i \in 1..Len(instances) |-> <<instances[i]>>]

\* the arguments and the provider response of a call of the Finder of a kind
FinderInputs(kind) ==
    CASE kind = "eips" ->
        {[kind |-> "eips", days |-> 0, resp |-> r] :
            r \in {Raised} \cup
                  UNION {{describe_addresses([Addresses |-> a]) :
                             a \in SeqsFrom([i \in 1..n |-> AddressPool(i)], n)} :
                         n \in 0..MaxLen}}
      [] kind = "snapshots" ->
        UNION {
            {[kind |-> "snapshots", days |-> d, resp |-> r] :
                r \in {Raised} \cup
                      UNION {{describe_snapshots([Snapshots |-> a]) :
                                 a \in SeqsFrom([i \in 1..n |-> SnapshotPool(i, d)], n)} :
                             n \in 0..MaxLen}}
            : d \in 0..MaxDays}
      [] OTHER ->
        UNION {
            {[kind |-> "instances", days |-> d, resp |-> r] :
                r \in {Raised} \cup
                      UNION {{describe_instances([Reservations |-> Reservations(a, t)]) :
                                 a \in SeqsFrom([i \in 1..n |-> InstancePool(i, d)], n),
                                 t \in BOOLEAN} :
                             n \in 0..MaxLen}}
            : d \in 0..MaxDays}

\* no Cleaner was called in the latest block
NoClean == [called |-> FALSE]
Cleaned(by, kind, region, dry_run, candidates, raises, outcome) ==
    [called |-> TRUE, by |-> by, kind |-> kind, region |-> region,
     dry_run |-> dry_run, candidates |-> candidates, raises |-> raises,
     out |-> outcome]

Idle ==
    /\ ri = 0
    /\ calls = <<>>
    /\ finds = <<>>
    /\ prompts = <<>>
    /\ logged = <<>>
    /\ regions = <<>>
    /\ total_cleaned = [eips |-> 0, snapshots |-> 0, instances |-> 0]
    /\ results = <<>>
    /\ all_results = <<>>
    /\ output = <<>>
    /\ last = NoClean

InitFinder ==
    /\ flavor = "finder"
    /\ pc = "call"
    /\ inv = <<>>
    /\ now = FinderNow
    /\ \E k \in 1..Len(Kinds) : input \in FinderInputs(Kinds[k])
    /\ Idle

Returned(by, ret) == [by |-> by, ret |-> ret]

FinderReturn(by, ret) ==
    /\ pc' = "done"
    /\ output' = Returned(by, ret)
    /\ logged' = IF input.resp.ok THEN logged
                 ELSE Append(logged, Msg("Error finding", Some(input.kind)))
    /\ UNCHANGED <<flavor, inv, now, input, ri, calls, finds, prompts, regions,
                   total_cleaned, results, all_results, last>>

CallCliFindUnusedElasticIps ==
    /\ flavor = "finder" /\ pc = "call" /\ input.kind = "eips"
    /\ FinderReturn("cli", Cli_find_unused_elastic_ips(input.resp))

CallLambdaFindUnusedElasticIps ==
    /\ flavor = "finder" /\ pc = "call" /\ input.kind = "eips"
    /\ FinderReturn("lambda", Lambda_find_unused_elastic_ips(input.resp))

CallCliFindOldSnapshots ==
    /\ flavor = "finder" /\ pc = "call" /\ input.kind = "snapshots"
    /\ FinderReturn("cli", Cli_find_old_snapshots(input.resp, now, input.days))

CallLambdaFindOldSnapshots ==
    /\ flavor = "finder" /\ pc = "call" /\ input.kind = "snapshots"
    /\ FinderReturn("lambda", Lambda_find_old_snapshots(input.resp, now, input.days))

CallCliFindStoppedInstances ==
    /\ flavor = "finder" /\ pc = "call" /\ input.kind = "instances"
    /\ FinderReturn("cli", Cli_find_stopped_instances(input.resp, now, input.days))

CallLambdaFindStoppedInstances ==
    /\ flavor = "finder" /\ pc = "call" /\ input.kind = "instances"
    /\ FinderReturn("lambda", Lambda_find_stopped_instances(input.resp, now, input.days))

NextFinder ==
    \/ CallCliFindUnusedElasticIps
    \/ CallLambdaFindUnusedElasticIps
    \/ CallCliFindOldSnapshots
    \/ CallLambdaFindOldSnapshots
    \/ CallCliFindStoppedInstances
    \/ CallLambdaFindStoppedInstances

SpecFinder == InitFinder /\ [][NextFinder]_vars

----------------------------------------------------------------------------
(* The provider inventory the orchestrators run against.  Resource i of a  *)
(* kind is fixed; a region holds the first k resources of every kind.  The *)
(* inventory is not updated by the mutating calls: a run describes each    *)
(* kind once per region and the region lists hold no region twice, so the  *)
(* program cannot observe the update.                                      *)

RunNow == MaxItems + Timedelta(MaxDays)

AddressAt(i) ==
    AddressRec(i,
               IF i % 3 = 2 THEN Absent ELSE Some(<<"eipalloc", i>>),
               CASE i % 3 = 1 -> Some("vpc")
                 [] i % 3 = 2 -> Some("classic")
                 [] OTHER -> Absent,
               IF i % 4 = 0 THEN Some(<<"i", i>>) ELSE Absent,
               Absent)

SnapshotAt(i) == SnapshotRec(i, i)

InstanceAt(i, reason) ==
    InstanceRec(i, IF i % 4 = 3 THEN "running" ELSE "stopped", i, Some(reason))

RegionInventory(k, reason) ==
    [Addresses |-> [i \in 1..k |-> AddressAt(i)],
     Snapshots |-> [i \in 1..k |-> SnapshotAt(i)],
     Reservations |-> Reservations([i \in 1..k |-> InstanceAt(i, reason)], TRUE)]

Inventories(reasons) ==
    {[r \in Regions |-> IF r = "r1" THEN RegionInventory(k, reason)
                        ELSE RegionInventory(MaxItems - k, reason)] :
        k \in 0..MaxItems, reason \in reasons}

\* region lists: no region twice
RegionLists ==
    {<<>>, <<"r1">>, <<"r2">>, <<"r1", "r2">>, <<"r2", "r1">>}

\* provider calls that raised so far (calls to a region that exists)
Faults ==
    Cardinality({i \in 1..Len(calls) : calls[i].raised})
    + Cardinality({i \in 1..Len(finds) : ~finds[i].ok /\ finds[i].region \in Regions})

Declines == Cardinality({i \in 1..Len(prompts) : ~prompts[i].answer})

\* the subsets of 1..n with at most k elements
RECURSIVE SmallSubsets(_, _)
SmallSubsets(n, k) ==
    IF n = 0 \/ k <= 0 THEN {{}}
    ELSE SmallSubsets(n - 1, k)
         \cup {S \cup {n} : S \in SmallSubsets(n - 1, k - 1)}

\* which of n provider calls raise: none in a dry run (none is made), and no
\* more than the budget left
RaiseChoices(n, dry_run, spent) ==
    {[i \in 1..n |-> i \in S] :
        S \in SmallSubsets(n, IF dry_run THEN 0 ELSE MaxFaults - spent)}

\* the answers to n prompts; none is asked when asked = FALSE
AnswerChoices(n, asked, spent) ==
    {[i \in 1..n |-> i \notin S] :
        S \in SmallSubsets(n, IF asked THEN MaxDeclines - spent ELSE 0)}

\* whether a describe call succeeds: a region that does not exist has no
\* endpoint, a call to one that exists may raise within the budget
DescribeChoices(region) ==
    IF region \in Regions
    THEN {TRUE} \cup (IF Faults < MaxFaults THEN {FALSE} ELSE {})
    ELSE {FALSE}

Find(region, kind, ok) == [region |-> region, kind |-> kind, ok |-> ok]

RegionInv(region) ==
    IF region \in Regions THEN inv[region] ELSE RegionInventory(0, ReasonStr)

----------------------------------------------------------------------------
(* The interactive orchestrator: main of aws_cleaner.py (flavor = "cli").  *)
(* input = [region, all_regions, dry_run, clean_eips, clean_snapshots,     *)
(*          clean_instances, days, force]                                  *)

CliInputs ==
    [region : Regions, all_regions : BOOLEAN, dry_run : BOOLEAN,
     clean_eips : BOOLEAN, clean_snapshots : BOOLEAN, clean_instances : BOOLEAN,
     days : {0, MaxDays}, force : BOOLEAN]

InitCli ==
    /\ flavor = "cli"
    /\ pc = "start"
    /\ inv \in Inventories({ReasonStr, ReasonList})
    /\ now = RunNow
    /\ input \in CliInputs
    /\ Idle

\* AWSResourceCleaner.get_all_regions: [self.region] when the query raised
get_all_regions(region, ok) ==
    IF ok THEN <<"r1", "r2">> ELSE <<region>>

\* the head of main: regions_to_scan and total_cleaned
MainStart ==
    /\ flavor = "cli" /\ pc = "start"
    /\ \E ok \in (IF input.all_regions THEN BOOLEAN ELSE {TRUE}) :
        /\ regions' = IF input.all_regions
                      THEN get_all_regions(input.region, ok)
                      ELSE <<input.region>>
        /\ logged' = IF ok THEN logged
                     ELSE Append(logged, Msg("Error getting regions", Absent))
    /\ ri' = 1
    /\ pc' = "eips"
    /\ total_cleaned' = [eips |-> 0, snapshots |-> 0, instances |-> 0]
    /\ UNCHANGED <<flavor, inv, now, input, calls, finds, prompts, results,
                   all_results, output, last>>

\* mutant: after the last region the program exits without its summary
CliNextRegion_exit_after_last_region ==
    /\ ri' = ri + 1
    /\ pc' = IF ri + 1 > Len(regions) THEN "exit" ELSE "eips"

\* the next iteration of "for current_region in regions_to_scan", or the
\* summary after the last one
CliNextRegion ==
    /\ ri' = ri + 1
    /\ pc' = IF ri + 1 > Len(regions) THEN "summary" ELSE "eips"

\* what one "if clean_<kind>:" block of main leaves behind.  found is the
\* Finder's list, asked whether the top-level click.confirm is issued, answer
\* its answer, done the Cleaner's outcome; `continue` is taken on a "no".
CliKindBlock(kind, ok, found, text, asked, answer, raises, outcome, after) ==
    \E done \in {outcome} :
    /\ last' = IF found # <<>> /\ answer
               THEN Cleaned("cli", kind, regions[ri], input.dry_run, found, raises, done)
               ELSE NoClean
    /\ finds' = Append(finds, Find(regions[ri], kind, ok))
    /\ prompts' = (IF asked THEN Append(prompts, Prompt(text, Absent, answer))
                   ELSE prompts)
                  \o (IF found # <<>> /\ answer THEN done.prompts ELSE <<>>)
    /\ logged' = (IF ok THEN logged
                  ELSE Append(logged, Msg("Error finding", Some(kind))))
                 \o (IF found # <<>> /\ answer THEN done.logged ELSE <<>>)
    /\ IF found = <<>>
       THEN /\ UNCHANGED <<calls, total_cleaned>>
            /\ IF after = "region" THEN CliNextRegion
               ELSE pc' = after /\ ri' = ri
       ELSE IF ~answer
            THEN /\ UNCHANGED <<calls, total_cleaned>>
                 /\ CliNextRegion
            ELSE /\ calls' = calls \o done.calls
                 /\ total_cleaned' = [total_cleaned EXCEPT ![kind] = @ + done.count]
                 /\ IF after = "region" THEN CliNextRegion
                    ELSE pc' = after /\ ri' = ri
    /\ UNCHANGED <<flavor, inv, now, input, regions, results, all_results, output>>

CliSkipKind(after) ==
    /\ IF after = "region" THEN CliNextRegion ELSE pc' = after /\ ri' = ri
    /\ last' = NoClean
    /\ UNCHANGED <<flavor, inv, now, input, regions, calls, finds, prompts,
                   logged, total_cleaned, results, all_results, output>>

\* is the top-level click.confirm issued: "if not dry_run and not force"
CliAsks(found) == found # <<>> /\ ~input.dry_run /\ ~input.force

\* "if clean_eips:" of main
MainEips ==
    /\ flavor = "cli" /\ pc = "eips"
    /\ IF ~input.clean_eips THEN CliSkipKind("snapshots")
       ELSE \E ok \in DescribeChoices(regions[ri]) :
            LET resp == IF ok THEN describe_addresses(RegionInv(regions[ri]))
                        ELSE Raised
            IN \E unused_eips \in {Cli_find_unused_elastic_ips(resp)} :
               \E asked \in {CliAsks(unused_eips)} :
               \E answer \in AnswerChoices(1, asked, Declines) :
               \E raises \in RaiseChoices(Len(unused_eips),
                                          input.dry_run \/ ~answer[1],
                                          Faults + (IF ok THEN 0 ELSE 1)) :
                  CliKindBlock("eips", ok, unused_eips,
                               "Proceed with EIP cleanup?", asked, answer[1], raises,
                               Cli_clean_elastic_ips(unused_eips, input.dry_run,
                                                     regions[ri], raises),
                               "snapshots")

\* "if clean_snapshots:" of main
MainSnapshots ==
    /\ flavor = "cli" /\ pc = "snapshots"
    /\ IF ~input.clean_snapshots THEN CliSkipKind("instances")
       ELSE \E ok \in DescribeChoices(regions[ri]) :
            LET resp == IF ok THEN describe_snapshots(RegionInv(regions[ri]))
                        ELSE Raised
            IN \E old_snapshots \in {Cli_find_old_snapshots(resp, now, input.days)} :
               \E asked \in {CliAsks(old_snapshots)} :
               \E answer \in AnswerChoices(1, asked, Declines) :
               \E raises \in RaiseChoices(Len(old_snapshots),
                                          input.dry_run \/ ~answer[1],
                                          Faults + (IF ok THEN 0 ELSE 1)) :
                  CliKindBlock("snapshots", ok, old_snapshots,
                               "Proceed with snapshot cleanup?", asked, answer[1], raises,
                               Cli_clean_snapshots(old_snapshots, input.dry_run,
                                                   regions[ri], raises),
                               "instances")

\* "if clean_instances:" of main
MainInstances ==
    /\ flavor = "cli" /\ pc = "instances"
    /\ IF ~input.clean_instances THEN CliSkipKind("region")
       ELSE \E ok \in DescribeChoices(regions[ri]) :
            LET resp == IF ok THEN describe_instances(RegionInv(regions[ri]))
                        ELSE Raised
            IN \E stopped_instances \in
                     {Cli_find_stopped_instances(resp, now, input.days)} :
               \E asked \in {CliAsks(stopped_instances)} :
               \E answer \in AnswerChoices(1, asked, Declines) :
               \E answers \in AnswerChoices(Len(stopped_instances),
                                            ~input.dry_run /\ answer[1],
                                            Declines + (IF answer[1] THEN 0 ELSE 1)) :
               \E raises \in RaiseChoices(Len(stopped_instances),
                                          input.dry_run \/ ~answer[1],
                                          Faults + (IF ok THEN 0 ELSE 1)) :
                  /\ \A i \in 1..Len(stopped_instances) : raises[i] => answers[i]
                  /\ CliKindBlock("instances", ok, stopped_instances,
                                  "Proceed with instance cleanup?", asked, answer[1], raises,
                                  Cli_clean_stopped_instances(stopped_instances,
                                      input.dry_run, regions[ri], raises, answers),
                                  "region")

\* the summary print at the end of main
MainSummary ==
    /\ flavor = "cli" /\ pc = "summary"
    /\ pc' = "done"
    /\ output' = [summary |-> total_cleaned, dry_run_notice |-> input.dry_run]
    /\ UNCHANGED <<flavor, inv, now, input, ri, regions, calls, finds, prompts,
                   logged, total_cleaned, results, all_results, last>>

NextCli ==
    \/ MainStart
    \/ MainEips
    \/ MainSnapshots
    \/ MainInstances
    \/ MainSummary

SpecCli == InitCli /\ [][NextCli]_vars

\* the runs of main checked for termination: every option but --days, which
\* the control flow of main does not look at, over two regions that both hold
\* resources of every kind
InitCliFair ==
    /\ flavor = "cli"
    /\ pc = "start"
    /\ inv = [r \in Regions |-> IF r = "r1" THEN RegionInventory(2, ReasonList)
                                ELSE RegionInventory(MaxItems - 2, ReasonList)]
    /\ now = RunNow
    /\ input \in {i \in CliInputs : i.days = 0}
    /\ Idle

\* main is sequential code: the statement it stands at is executed (every
\* provider call returns or raises, every click.confirm is answered)
SpecCliFair == InitCliFair /\ [][NextCli]_vars /\ WF_vars(NextCli)

----------------------------------------------------------------------------
(* The event-driven orchestrator: lambda_handler and                       *)
(* LambdaResourceCleaner.cleanup_resources (flavor = "lambda").            *)
(* input is the event: [t |-> "dict", ...optional fields...], or           *)
(* [t |-> "none"] for an event that is no dict.                            *)

DefaultSnapshotDays == 30
DefaultInstanceDays == 7
\* boto3.Session().region_name
SessionRegion == "r1"

Event(regionsv, dry_run, clean_eips, clean_snapshots, clean_instances, snapshot_days, instance_days) ==
    [t |-> "dict", regions |-> regionsv, dry_run |-> dry_run,
     clean_eips |-> clean_eips, clean_snapshots |-> clean_snapshots,
     clean_instances |-> clean_instances, snapshot_days |-> snapshot_days,
     instance_days |-> instance_days]

RegionsValues ==
    {Absent, Some(PyInt(5)), Some(PyStr(<<>>)), Some(PyStr(<<"u", "s">>))}
    \cup {Some(PyList(l)) : l \in RegionLists}

Events ==
    {[t |-> "none"]}
    \cup {Event(r, d, e, s, i, sd, id) :
            r \in RegionsValues,
            d \in {Absent, Some(TRUE), Some(FALSE)},
            e \in {Absent, Some(TRUE)},
            s \in {Absent, Some(TRUE)},
            i \in {Absent, Some(TRUE)},
            sd \in {Absent, Some(MaxDays)},
            id \in {Absent, Some(0)}}

InitLambda ==
    /\ flavor = "lambda"
    /\ pc = "start"
    /\ inv \in Inventories({ReasonStr})
    /\ now = RunNow
    /\ input \in Events
    /\ Idle

\* the config dict lambda_handler builds from the event
Config(event) ==
    [dry_run |-> Get(event.dry_run, TRUE),
     clean_eips |-> Get(event.clean_eips, FALSE),
     clean_snapshots |-> Get(event.clean_snapshots, FALSE),
     clean_instances |-> Get(event.clean_instances, FALSE),
     snapshot_days |-> Get(event.snapshot_days, DefaultSnapshotDays),
     instance_days |-> Get(event.instance_days, DefaultInstanceDays)]

\* event.get('regions', [boto3.Session().region_name])
EventRegions(event) == Get(event.regions, PyList(<<SessionRegion>>))

\* what "for region in regions" yields: the elements of a list, the
\* characters of a str (each a one-character region name)
RegionItems(value) ==
    IF value.t = "str" THEN value.v ELSE IterItems(value)

Failure(error) ==
    [statusCode |-> 500, body |-> [error |-> error, message |-> "Cleanup failed"]]

\* the results dict cleanup_resources starts from
FreshResults(region) ==
    [region |-> region, timestamp |-> Isoformat([wall |-> now, tz |-> "none"]),
     cleaned |-> [eips |-> 0, snapshots |-> 0, instances |-> 0],
     errors |-> <<>>]

\* lambda_handler up to the region loop; an event without .get and a
\* regions value that cannot be iterated raise into the handler's except
LambdaStart ==
    /\ flavor = "lambda" /\ pc = "start"
    /\ IF input.t # "dict"
       THEN /\ pc' = "done"
            /\ output' = Failure("'NoneType' object has no attribute 'get'")
            /\ logged' = Append(logged, Msg("Lambda execution failed", Absent))
            /\ UNCHANGED <<regions, ri>>
       ELSE IF ~Iterable(EventRegions(input))
            THEN /\ pc' = "done"
                 /\ output' = Failure("'int' object is not iterable")
                 /\ logged' = Append(logged, Msg("Lambda execution failed", Absent))
                 /\ UNCHANGED <<regions, ri>>
            ELSE /\ regions' = RegionItems(EventRegions(input))
                 /\ ri' = 1
                 /\ pc' = IF RegionItems(EventRegions(input)) = <<>>
                          THEN "aggregate" ELSE "eips"
                 /\ UNCHANGED <<output, logged>>
    /\ UNCHANGED <<flavor, inv, now, input, calls, finds, prompts,
                   total_cleaned, results, all_results, last>>

\* mutant: a failed query or a failed item ends the region's cleanup
Lambda_after_abort_on_error(kind, ok, done) ==
    IF ~ok \/ done.errors # <<>> THEN "return"
    ELSE CASE kind = "eips" -> "snapshots"
           [] kind = "snapshots" -> "instances"
           [] OTHER -> "return"

\* where cleanup_resources goes after the block of a kind: the blocks follow
\* one another whatever the Finder or the Cleaner met, then results is returned
Lambda_after(kind, ok, done) ==
    CASE kind = "eips" -> "snapshots"
      [] kind = "snapshots" -> "instances"
      [] OTHER -> "return"

\* on "return", back in lambda_handler: the result is appended to all_results
\* and the region loop goes on
LambdaGoto(after, res) ==
    IF after = "return"
    THEN /\ all_results' = Append(all_results, res)
         /\ ri' = ri + 1
         /\ pc' = IF ri + 1 > Len(regions) THEN "aggregate" ELSE "eips"
    ELSE /\ pc' = after
         /\ UNCHANGED <<all_results, ri>>

NoOutcome == Step(0, <<>>, <<>>, <<>>, <<>>)

\* a block whose kind is not enabled
LambdaSkipKind(kind, before) ==
    /\ results' = before
    /\ last' = NoClean
    /\ LambdaGoto(Lambda_after(kind, TRUE, NoOutcome), before)
    /\ UNCHANGED <<finds, calls, logged>>

\* what one "if config.get('clean_<kind>')" block of cleanup_resources leaves
\* behind, starting from the results dict `before`
LambdaKindBlock(kind, ok, before, found, raises, outcome) ==
    \E done \in {outcome} :
    \E res \in {[before EXCEPT !.cleaned[kind] = @ + done.count,
                               !.errors = @ \o done.errors]} :
    /\ finds' = Append(finds, Find(regions[ri], kind, ok))
    /\ calls' = calls \o done.calls
    /\ logged' = (IF ok THEN logged
                  ELSE Append(logged, Msg("Error finding", Some(kind))))
                 \o done.logged
    /\ results' = res
    /\ last' = Cleaned("lambda", kind, regions[ri], Config(input).dry_run,
                       found, raises, done)
    /\ LambdaGoto(Lambda_after(kind, ok, done), res)

\* cleanup_resources: the results dict and "Clean Elastic IPs"
CleanupEips ==
    /\ flavor = "lambda" /\ pc = "eips"
    /\ IF ~Config(input).clean_eips
       THEN LambdaSkipKind("eips", FreshResults(regions[ri]))
       ELSE \E ok \in DescribeChoices(regions[ri]) :
            LET resp == IF ok THEN describe_addresses(RegionInv(regions[ri]))
                        ELSE Raised
            IN \E unused_eips \in {Lambda_find_unused_elastic_ips(resp)} :
               \E raises \in RaiseChoices(Len(unused_eips), Config(input).dry_run,
                                          Faults + (IF ok THEN 0 ELSE 1)) :
                  LambdaKindBlock("eips", ok, FreshResults(regions[ri]),
                                  unused_eips, raises,
                                  Lambda_clean_eips(unused_eips, Config(input).dry_run,
                                                    regions[ri], raises))
    /\ UNCHANGED <<flavor, inv, now, input, regions, prompts, total_cleaned, output>>

\* cleanup_resources: "Clean old snapshots"
CleanupSnapshots ==
    /\ flavor = "lambda" /\ pc = "snapshots"
    /\ IF ~Config(input).clean_snapshots
       THEN LambdaSkipKind("snapshots", results)
       ELSE \E ok \in DescribeChoices(regions[ri]) :
            LET resp == IF ok THEN describe_snapshots(RegionInv(regions[ri]))
                        ELSE Raised
            IN \E old_snapshots \in
                     {Lambda_find_old_snapshots(resp, now, Config(input).snapshot_days)} :
               \E raises \in RaiseChoices(Len(old_snapshots), Config(input).dry_run,
                                          Faults + (IF ok THEN 0 ELSE 1)) :
                  LambdaKindBlock("snapshots", ok, results, old_snapshots, raises,
                                  Lambda_clean_snapshots(old_snapshots,
                                      Config(input).dry_run, regions[ri], raises))
    /\ UNCHANGED <<flavor, inv, now, input, regions, prompts, total_cleaned, output>>

\* cleanup_resources: "Clean stopped instances" and the return
CleanupInstances ==
    /\ flavor = "lambda" /\ pc = "instances"
    /\ IF ~Config(input).clean_instances
       THEN LambdaSkipKind("instances", results)
       ELSE \E ok \in DescribeChoices(regions[ri]) :
            LET resp == IF ok THEN describe_instances(RegionInv(regions[ri]))
                        ELSE Raised
            IN \E stopped_instances \in
                     {Lambda_find_stopped_instances(resp, now, Config(input).instance_days)} :
               \E raises \in RaiseChoices(Len(stopped_instances), Config(input).dry_run,
                                          Faults + (IF ok THEN 0 ELSE 1)) :
                  LambdaKindBlock("instances", ok, results, stopped_instances, raises,
                                  Lambda_clean_instances(stopped_instances,
                                      Config(input).dry_run, regions[ri], raises))
    /\ UNCHANGED <<flavor, inv, now, input, regions, prompts, total_cleaned, output>>

\* mutant: the totals are those of the last region alone
TotalOf_last_region_only(all, kind) ==
    IF all = <<>> THEN 0 ELSE all[Len(all)].cleaned[kind]

\* total_cleaned[resource_type] summed over all_results
TotalOf(all, kind) == SumSeq([i \in 1..Len(all) |-> all[i].cleaned[kind]])

\* lambda_handler: "Aggregate results" and the response
LambdaAggregate ==
    /\ flavor = "lambda" /\ pc = "aggregate"
    /\ pc' = "done"
    /\ output' =
         [statusCode |-> 200,
          body |-> [message |-> "Cleanup completed successfully",
                    total_cleaned |-> [eips |-> TotalOf(all_results, "eips"),
                                       snapshots |-> TotalOf(all_results, "snapshots"),
                                       instances |-> TotalOf(all_results, "instances")],
                    regions_processed |-> Len(EventRegions(input).v),
                    dry_run |-> Config(input).dry_run,
                    detailed_results |-> all_results,
                    errors |-> Concat([i \in 1..Len(all_results) |->
                                          all_results[i].errors])]]
    /\ UNCHANGED <<flavor, inv, now, input, ri, regions, calls, finds, prompts,
                   logged, total_cleaned, results, all_results, last>>

NextLambda ==
    \/ LambdaStart
    \/ CleanupEips
    \/ CleanupSnapshots
    \/ CleanupInstances
    \/ LambdaAggregate

SpecLambda == InitLambda /\ [][NextLambda]_vars

----------------------------------------------------------------------------
(* The whole program: any of its entry points *)

Init == InitFinder \/ InitCli \/ InitLambda

Next == NextFinder \/ NextCli \/ NextLambda

Spec == Init /\ [][Next]_vars

----------------------------------------------------------------------------
(* Properties *)

\* the run is a dry run
DryRun ==
    \/ flavor = "cli" /\ input.dry_run
    \/ flavor = "lambda" /\ input.t = "dict" /\ Config(input).dry_run

\* C1: in a dry run, in both flavors, no mutating provider call
\* (release_address, delete_snapshot, terminate_instances) is ever issued.
C1_DryRunIssuesNoMutatingCall ==
    DryRun => calls = <<>>

\* a dry run of main that ended having "cleaned" resources of all three kinds
C1_Witness ==
    /\ flavor = "cli" /\ pc = "done" /\ input.dry_run
    /\ total_cleaned.eips > 0
    /\ total_cleaned.snapshots > 0
    /\ total_cleaned.instances > 0
    /\ calls = <<>>

\* the identifier an error message names a candidate by
ItemName(kind, c) ==
    CASE kind = "eips" -> c.PublicIp
      [] kind = "snapshots" -> Some(c.SnapshotId)
      [] OTHER -> Some(c.InstanceId)

\* the identifiers a mutating call may name a candidate by
ItemIds(kind, c) ==
    IF kind = "eips" THEN {c.AllocationId, c.PublicIp} ELSE {ItemName(kind, c)}

\* a mutating call was issued for candidate c in the latest Cleaner call
Attempted(c) ==
    \E j \in 1..Len(last.out.calls) : last.out.calls[j].id \in ItemIds(last.kind, c)

\* the per-item confirmation of candidate c was declined
DeclinedItem(c) ==
    \E j \in 1..Len(last.out.prompts) :
        /\ last.out.prompts[j].item = ItemName(last.kind, c)
        /\ ~last.out.prompts[j].answer

\* the candidates of the latest Cleaner call whose provider call raises
Raising == {i \in 1..Len(last.candidates) : last.raises[i]}

\* the latest Cleaner call ran live and exactly one item's call raised
OneItemRaised ==
    /\ last.called
    /\ ~last.dry_run
    /\ Cardinality(Raising) = 1

CliEnabled(kind) ==
    CASE kind = "eips" -> input.clean_eips
      [] kind = "snapshots" -> input.clean_snapshots
      [] OTHER -> input.clean_instances

Found(region, kind) ==
    \E j \in 1..Len(finds) : finds[j].region = region /\ finds[j].kind = kind

\* C3 as stated: in a live, unforced run of main a declined top-level
\* confirmation skips only that kind: every enabled kind is still found in
\* every region.
C3_DeclineSkipsOnlyThatKind ==
    (flavor = "cli" /\ pc = "done" /\ ~input.dry_run /\ ~input.force) =>
        \A i \in 1..Len(regions) : \A k \in 1..Len(Kinds) :
            CliEnabled(Kinds[k]) => Found(regions[i], Kinds[k])

FinderDone(kind) ==
    /\ flavor = "finder" /\ pc = "done"
    /\ input.kind = kind
    /\ input.resp.ok

\* the instances of a describe_instances response
ResponseInstances(resp) ==
    Concat([i \in 1..Len(resp.body.Reservations) |->
               resp.body.Reservations[i].Instances])

Occurrences(ret, instance_id) ==
    Cardinality({k \in 1..Len(ret) : ret[k].InstanceId = instance_id})

\* C4 as stated: in both flavors find_stopped_instances returns an instance
\* of the response, exactly once, iff it is stopped and was launched strictly
\* before now minus the threshold.
C4_StoppedAndLaunchedBeforeCutoff ==
    FinderDone("instances") =>
        \A i \in 1..Len(ResponseInstances(input.resp)) :
            LET instance == ResponseInstances(input.resp)[i]
            IN Occurrences(output.ret, instance.InstanceId)
               = IF /\ instance.State.Name = "stopped"
                    /\ instance.LaunchTime.wall < now - input.days * DayLen
                 THEN 1 ELSE 0

LambdaEnabled(kind) ==
    CASE kind = "eips" -> Config(input).clean_eips
      [] kind = "snapshots" -> Config(input).clean_snapshots
      [] OTHER -> Config(input).clean_instances

\* the (region, kind) pairs in the order cleanup is expected to find them
ExpectedFinds(regionsv) ==
    Concat([i \in 1..Len(regionsv) |->
              Concat([k \in 1..Len(Kinds) |->
                        IF LambdaEnabled(Kinds[k])
                        THEN <<<<regionsv[i], Kinds[k]>>>> ELSE <<>>])])

\* a well-formed event: a dict whose regions (if given) is a list
WellFormed(event) ==
    /\ event.t = "dict"
    /\ EventRegions(event).t = "list"

\* C6: the event-driven flavor never terminates early: the Finder of every
\* enabled kind is invoked in every requested region, in order, whatever
\* failed before, and lambda_handler returns 200 with one result per
\* requested region, in request order.
C6_NoEarlyTermination ==
    (flavor = "lambda" /\ pc = "done" /\ WellFormed(input)) =>
        /\ output.statusCode = 200
        /\ [j \in 1..Len(finds) |-> <<finds[j].region, finds[j].kind>>]
           = ExpectedFinds(EventRegions(input).v)
        /\ [i \in 1..Len(output.body.detailed_results) |->
               output.body.detailed_results[i].region]
           = EventRegions(input).v

\* two regions, three kinds, the very first query failed, all six were made
C6_Witness ==
    /\ flavor = "lambda" /\ pc = "done" /\ WellFormed(input)
    /\ Len(EventRegions(input).v) = 2
    /\ Len(finds) = 6
    /\ ~finds[1].ok
    /\ output.statusCode = 200
    /\ output.body.total_cleaned.instances > 0

\* the message cleanup_resources has for a kind whose block failed
BlockError(kind) ==
    CASE kind = "eips" -> "Error in EIP cleanup"
      [] kind = "snapshots" -> "Error in snapshot cleanup"
      [] OTHER -> "Error in instance cleanup"

\* C7 as stated: a failed Finder query shows in the result: the kind's
\* cleaned count is zero and the region's errors hold a message for it.
C7_QueryFailureIsReported ==
    (flavor = "lambda" /\ pc = "done" /\ output.statusCode = 200) =>
        \A j \in 1..Len(finds) :
            ~finds[j].ok =>
                \E i \in 1..Len(output.body.detailed_results) :
                    LET res == output.body.detailed_results[i]
                    IN /\ res.region = finds[j].region
                       /\ res.cleaned[finds[j].kind] = 0
                       /\ \E e \in 1..Len(res.errors) :
                              res.errors[e].what = BlockError(finds[j].kind)

\* C8 as stated: a malformed event (no dict, or regions not a list) is
\* answered with statusCode 500 and a non-empty error, never with 200.
C8_MalformedEventGives500 ==
    (flavor = "lambda" /\ pc = "done" /\ ~WellFormed(input)) =>
        /\ output.statusCode = 500
        /\ output.body.error # ""

\* the positions of a describe_addresses response that carry neither an
\* InstanceId nor a NetworkInterfaceId
Unattached(addresses) ==
    {i \in 1..Len(addresses) :
        /\ addresses[i].InstanceId = Absent
        /\ addresses[i].NetworkInterfaceId = Absent}

\* C9: find_unused_elastic_ips, in both flavors, returns an address of the
\* response iff it carries neither an InstanceId nor a NetworkInterfaceId, in
\* response order, and nothing that is not in the response.
C9_UnusedIffNoAttachment ==
    FinderDone("eips") =>
        LET A == input.resp.body.Addresses
            R == output.ret
        IN /\ \A i \in 1..Len(A) :
                  (\E k \in 1..Len(R) : R[k].PublicIp = A[i].PublicIp)
                  <=> i \in Unattached(A)
           /\ \A k \in 1..Len(R) : \E i \in 1..Len(A) : R[k].PublicIp = A[i].PublicIp
           /\ \A k, l \in 1..Len(R) :
                  k < l => \E i, j \in 1..Len(A) :
                              /\ i < j
                              /\ R[k].PublicIp = A[i].PublicIp
                              /\ R[l].PublicIp = A[j].PublicIp
           /\ Len(R) = Cardinality(Unattached(A))

\* the first address is attached by a network interface alone and left out,
\* the second is unattached and returned
C9_Witness ==
    /\ FinderDone("eips")
    /\ output.by = "cli"
    /\ Len(input.resp.body.Addresses) = 2
    /\ input.resp.body.Addresses[1].InstanceId = Absent
    /\ input.resp.body.Addresses[1].NetworkInterfaceId # Absent
    /\ Unattached(input.resp.body.Addresses) = {2}
    /\ Len(output.ret) = 1
    /\ output.ret[1].PublicIp = input.resp.body.Addresses[2].PublicIp

\* C10: find_old_snapshots(days), in both flavors, returns a snapshot of the
\* response iff its creation time (zone stripped) is strictly earlier than now
\* minus days; one created at the threshold instant or later is left out.
C10_OldIffStrictlyBeforeCutoff ==
    FinderDone("snapshots") =>
        LET S == input.resp.body.Snapshots
            R == output.ret
        IN /\ \A i \in 1..Len(S) :
                  (\E k \in 1..Len(R) : R[k].SnapshotId = S[i].SnapshotId)
                  <=> S[i].StartTime.wall < now - input.days * DayLen
           /\ Len(R) <= Len(S)

\* one snapshot created exactly at the threshold and left out, one created a
\* tick earlier and returned
C10_Witness ==
    /\ FinderDone("snapshots")
    /\ output.by = "lambda"
    /\ input.days > 0
    /\ Len(input.resp.body.Snapshots) = 2
    /\ input.resp.body.Snapshots[1].StartTime.wall = now - input.days * DayLen
    /\ input.resp.body.Snapshots[2].StartTime.wall = now - input.days * DayLen - 1
    /\ Len(output.ret) = 1
    /\ output.ret[1].SnapshotId = input.resp.body.Snapshots[2].SnapshotId

\* the latest Cleaner call released addresses in live mode
LiveRelease ==
    last.called /\ last.kind = "eips" /\ ~last.dry_run

\* the release calls of the latest Cleaner call that name address a of the
\* provider response, by either identifier
ReleasesOf(a) ==
    {j \in 1..Len(last.out.calls) :
        \/ last.out.calls[j].id = a.PublicIp
        \/ a.AllocationId # Absent /\ last.out.calls[j].id = a.AllocationId}

\* the addresses of the provider response that the candidates of the latest
\* Cleaner call were made from
CandidateAddresses ==
    LET A == RegionInv(last.region).Addresses
    IN {i \in 1..Len(A) :
           \E k \in 1..Len(last.candidates) : last.candidates[k].PublicIp = A[i].PublicIp}

\* C11: in live mode, in both flavors, every candidate address gets exactly
\* one release call: by AllocationId (and not by PublicIp) when its Domain in
\* the provider response is "vpc", by PublicIp (and not by AllocationId) when
\* its Domain is "classic" or absent from the response.
C11_ReleaseIdentifierFollowsDomain ==
    LiveRelease =>
        LET A == RegionInv(last.region).Addresses
        IN /\ Cardinality(CandidateAddresses) = Len(last.candidates)
           /\ \A i \in CandidateAddresses :
                 /\ Cardinality(ReleasesOf(A[i])) = 1
                 /\ \A j \in ReleasesOf(A[i]) :
                       IF A[i].Domain = Some("vpc")
                       THEN /\ last.out.calls[j].by = "AllocationId"
                            /\ last.out.calls[j].id = A[i].AllocationId
                       ELSE /\ last.out.calls[j].by = "PublicIp"
                            /\ last.out.calls[j].id = A[i].PublicIp

\* a live release, in the interactive flavor, of a "vpc" address, a "classic"
\* one and one whose Domain the response left out
C11_Witness ==
    /\ LiveRelease
    /\ last.by = "cli"
    /\ LET A == RegionInv(last.region).Addresses
       IN /\ \E i \in CandidateAddresses : A[i].Domain = Some("vpc")
          /\ \E i \in CandidateAddresses : A[i].Domain = Some("classic")
          /\ \E i \in CandidateAddresses : A[i].Domain = Absent
    /\ Len(last.out.calls) = 3
    /\ \E j \in 1..3 : last.out.calls[j].by = "AllocationId"
    /\ \E j \in 1..3 : last.out.calls[j].by = "PublicIp"

\* lambda_handler returned 200 for an event whose regions is a list
Succeeded ==
    /\ flavor = "lambda" /\ pc = "done"
    /\ WellFormed(input)
    /\ output.statusCode = 200

\* the number of regions the event asks for: the given list, or the session
\* region alone
RequestedRegions ==
    IF input.regions = Absent THEN 1 ELSE Len(input.regions[1].v)

\* cleaned[kind] summed over the first n per-region results
RECURSIVE CleanedUpTo(_, _, _)
CleanedUpTo(rs, kind, n) ==
    IF n = 0 THEN 0 ELSE CleanedUpTo(rs, kind, n - 1) + rs[n].cleaned[kind]

\* the error lists of the first n per-region results, one after the other
RECURSIVE ErrorsUpTo(_, _)
ErrorsUpTo(rs, n) ==
    IF n = 0 THEN <<>> ELSE ErrorsUpTo(rs, n - 1) \o rs[n].errors

\* the provider operation that deletes a resource of a kind
OpOf(kind) ==
    CASE kind = "eips" -> "release_address"
      [] kind = "snapshots" -> "delete_snapshot"
      [] OTHER -> "terminate_instances"

\* the mutating calls of a kind that returned / that raised
Succeeded_calls(kind) ==
    {j \in 1..Len(calls) : calls[j].op = OpOf(kind) /\ ~calls[j].raised}
Raised_calls == {j \in 1..Len(calls) : calls[j].raised}

LiveTerminate ==
    /\ last.called
    /\ last.by = "cli" /\ last.kind = "instances"
    /\ ~last.dry_run

\* the terminate calls of the latest Cleaner call that name instance c
TerminatesOf(c) ==
    {j \in 1..Len(last.out.calls) :
        /\ last.out.calls[j].op = "terminate_instances"
        /\ last.out.calls[j].id = Some(c.InstanceId)}

\* the logged errors of the latest Cleaner call that name instance c
ErrorsOf(c) ==
    {j \in 1..Len(last.out.logged) : last.out.logged[j].item = Some(c.InstanceId)}

\* C13: in the interactive flavor in live mode every candidate instance is
\* asked about, in order, whatever was answered for the ones before it; a
\* terminate call is issued for an instance only if its per-item
\* confirmation was accepted, and then once; a declined one gets no call, no
\* error, and adds nothing to the count, which is the number of accepted
\* instances whose call returned.
C13_TerminateOnlyWhenConfirmed ==
    LiveTerminate =>
        LET C == last.candidates
            P == last.out.prompts
        IN /\ Len(P) = Len(C)
           /\ \A i \in 1..Len(C) :
                 /\ P[i].text = "terminate"
                 /\ P[i].item = Some(C[i].InstanceId)
                 /\ Cardinality(TerminatesOf(C[i])) = (IF P[i].answer THEN 1 ELSE 0)
                 /\ ~P[i].answer => ErrorsOf(C[i]) = {}
           /\ last.out.count
              = Cardinality({i \in 1..Len(C) : P[i].answer /\ ~last.raises[i]})
           /\ last.out.errors = <<>>
           /\ Len(last.out.calls)
              = Cardinality({i \in 1..Len(C) : P[i].answer})

\* three candidate instances, the second declined: the first and the third
\* are terminated and two are counted
C13_Witness ==
    /\ LiveTerminate
    /\ flavor = "cli"
    /\ Len(last.candidates) = 3
    /\ last.out.prompts[1].answer
    /\ ~last.out.prompts[2].answer
    /\ last.out.prompts[3].answer
    /\ TerminatesOf(last.candidates[1]) # {}
    /\ TerminatesOf(last.candidates[2]) = {}
    /\ TerminatesOf(last.candidates[3]) # {}
    /\ last.out.count = 2
    /\ total_cleaned.instances = 2

\* main printed its summary and returned
MainEnded ==
    /\ flavor = "cli" /\ pc = "done"
    /\ output # <<>>

\* main stands at one of its statements: it has not left by an exception
MainRunning ==
    pc \in {"start", "eips", "snapshots", "instances", "summary", "done"}

\* nothing is tried a second time: no kind is queried twice in a region, no
\* resource gets a second mutating call
NoRetry ==
    /\ \A i, j \in 1..Len(finds) :
          (finds[i].region = finds[j].region /\ finds[i].kind = finds[j].kind)
             => i = j
    /\ \A i, j \in 1..Len(calls) :
          (calls[i].region = calls[j].region /\ calls[i].id = calls[j].id)
             => i = j

\* C14: every run of main reaches its summary and ends, whatever the region
\* list, the enable flags, dry-run and force, the answers to the
\* confirmations, and the Finder queries and Cleaner calls that raise; no
\* failure ends the run early and nothing is retried.
C14_MainReachesSummary ==
    /\ <>MainEnded
    /\ [](MainRunning /\ NoRetry)

\* a live run over two regions that met a failed call and a declined
\* confirmation and still printed its summary
C14_Witness ==
    /\ MainEnded
    /\ ~input.dry_run
    /\ Len(regions) = 2
    /\ ri = 3
    /\ Faults >= 1
    /\ Declines >= 1
    /\ output.summary = total_cleaned

\* an orchestrator is running or has run
Orchestrated ==
    flavor \in {"cli", "lambda"} /\ (flavor = "lambda" => input.t = "dict")

\* the age threshold, in days, the run applies to a kind
ThresholdDays(kind) ==
    IF flavor = "cli" THEN input.days
    ELSE IF kind = "snapshots" THEN Config(input).snapshot_days
         ELSE Config(input).instance_days

\* the resources of a kind a region holds, in the order of its inventory
Held(region, kind) ==
    CASE kind = "eips" -> RegionInv(region).Addresses
      [] kind = "snapshots" -> RegionInv(region).Snapshots
      [] OTHER -> Concat(RegionInv(region).Reservations)

\* the resources of a region eligible for deletion, as positions in Held:
\* the addresses attached to nothing, the snapshots created before
\* now - days, the stopped instances launched before now - days
Eligible(region, kind) ==
    LET H == Held(region, kind)
        limit == now - ThresholdDays(kind) * DayLen
    IN CASE kind = "eips" -> Unattached(H)
         [] kind = "snapshots" ->
              {n \in 1..Len(H) : H[n].StartTime.wall < limit}
         [] OTHER ->
              {n \in 1..Len(H) : /\ H[n].State.Name = "stopped"
                                 /\ H[n].LaunchTime.wall < limit}

EligibleCount(region, kind) == Cardinality(Eligible(region, kind))

\* does id name resource r of a kind
Names(id, kind, r) ==
    CASE kind = "eips" -> id # Absent /\ id \in {r.PublicIp, r.AllocationId}
      [] kind = "snapshots" -> id = Some(r.SnapshotId)
      [] OTHER -> id = Some(r.InstanceId)

\* a mutating call names an eligible resource of its region
NamesEligible(call) ==
    LET kind == CASE call.op = "release_address" -> "eips"
                  [] call.op = "delete_snapshot" -> "snapshots"
                  [] OTHER -> "instances"
    IN /\ Found(call.region, kind)
       /\ \E n \in Eligible(call.region, kind) :
             Names(call.id, kind, Held(call.region, kind)[n])

\* the calls of the latest Cleaner call that name candidate c
CallsFor(c) ==
    {j \in 1..Len(last.out.calls) : last.out.calls[j].id \in ItemIds(last.kind, c)}

\* C15: in any run of either flavor, every mutating call of a Cleaner targets
\* a candidate its Finder returned for the same region, after that Finder was
\* called; no candidate gets two calls and no resource is named twice in a
\* run; so, when the run has ended, every call it issued names an unattached
\* address, a snapshot older than the threshold or a stopped instance
\* launched before the cutoff, and the count of a kind does not exceed the
\* resources eligible for it.
C15_OnlyCandidatesAreDeleted ==
    Orchestrated =>
        /\ last.called =>
              /\ Found(last.region, last.kind)
              /\ \A j \in 1..Len(last.out.calls) :
                    /\ last.out.calls[j].op = OpOf(last.kind)
                    /\ last.out.calls[j].region = last.region
                    /\ \E k \in 1..Len(last.candidates) :
                          last.out.calls[j].id \in ItemIds(last.kind, last.candidates[k])
              /\ \A k \in 1..Len(last.candidates) :
                    Cardinality(CallsFor(last.candidates[k])) <= 1
              /\ last.out.count <= Len(last.candidates)
              /\ Len(last.candidates) <= EligibleCount(last.region, last.kind)
        /\ Cardinality({<<calls[j].region, calls[j].id>> : j \in 1..Len(calls)})
           = Len(calls)
        /\ pc = "done" =>
              /\ \A j \in 1..Len(calls) : NamesEligible(calls[j])
              /\ \A k \in 1..Len(Kinds) :
                    /\ total_cleaned[Kinds[k]]
                       <= SumSeq([i \in 1..Len(regions) |->
                                     EligibleCount(regions[i], Kinds[k])])
                    /\ \A i \in 1..Len(all_results) :
                          all_results[i].cleaned[Kinds[k]]
                          <= EligibleCount(all_results[i].region, Kinds[k])

\* a live event-driven run over a region that holds, for every kind, resources
\* to delete and one to keep (an attached address, a snapshot newer than the
\* threshold, a running instance): the first are deleted, the others not named
C15_Witness ==
    /\ flavor = "lambda" /\ pc = "done"
    /\ output.statusCode = 200
    /\ regions = <<"r1">>
    /\ \A k \in 1..Len(Kinds) :
          /\ EligibleCount("r1", Kinds[k]) >= 2
          /\ Cardinality({j \in 1..Len(calls) : calls[j].op = OpOf(Kinds[k])})
             = EligibleCount("r1", Kinds[k])
          /\ EligibleCount("r1", Kinds[k]) < Len(Held("r1", Kinds[k]))

====
